---- MODULE Spec2Model ----
(***************************************************************************)
(* The <chordpro-renderer> web component (src/src/chordpro-renderer.ts):   *)
(* its reactive properties, its internal view state, the Lit update cycle  *)
(* (property assignment -> pending update -> render -> updated), the three *)
(* user-interaction handlers, the chord extraction and the rendered        *)
(* layout.                                                                 *)
(*                                                                         *)
(* Strings the component only passes around (instrument names, modes,      *)
(* positions) are TLA+ strings.  Chord names are sequences of characters,  *)
(* because the component trims and sorts them.  A song text is a sequence  *)
(* of tokens, which the external parser groups into lines of items.        *)
(***************************************************************************)
EXTENDS Integers, Sequences, FiniteSets, TLC

(***************************************************************************)
(* Bounds of the model.                                                    *)
(***************************************************************************)
\* Property assignments made by the host in one synchronous batch, i.e.
\* before the pending update runs.
MaxBatch == 1
\* Tokens of a song text in the extraction specification.
MaxTokens == 3

Range(s) == {s[i] : i \in 1..Len(s)}

(***************************************************************************)
(* Chord strings.                                                          *)
(***************************************************************************)
\* UTF-16 code unit of a character: the order Array.prototype.sort uses.
CodeUnit(ch) ==
    CASE ch = " " -> 32
      [] ch = "C" -> 67
      [] ch = "G" -> 71
      [] ch = "g" -> 103
      [] ch = "m" -> 109

\* a < b for two strings, as the default sort comparator decides it:
\* code unit by code unit, a proper prefix first.
RECURSIVE StrLess(_, _)
StrLess(a, b) ==
    IF Len(b) = 0 THEN FALSE
    ELSE IF Len(a) = 0 THEN TRUE
    ELSE IF CodeUnit(Head(a)) # CodeUnit(Head(b))
         THEN CodeUnit(Head(a)) < CodeUnit(Head(b))
         ELSE StrLess(Tail(a), Tail(b))

IsSpace(ch) == ch = " "

RECURSIVE TrimStart(_)
TrimStart(s) ==
    IF Len(s) > 0 /\ IsSpace(Head(s)) THEN TrimStart(Tail(s)) ELSE s

RECURSIVE TrimEnd(_)
TrimEnd(s) ==
    IF Len(s) > 0 /\ IsSpace(s[Len(s)])
    THEN TrimEnd(SubSeq(s, 1, Len(s) - 1))
    ELSE s

\* String.prototype.trim
Trim(s) == TrimEnd(TrimStart(s))

(***************************************************************************)
(* Song texts and the external parser and formatters (chordsheetjs).       *)
(***************************************************************************)
\* The chord annotations the sample texts carry: '', ' ', 'G', 'C ', 'g', 'Gm'.
ChordSamples ==
    {<<>>, <<" ">>, <<"G">>, <<"C", " ">>, <<"g">>, <<"G", "m">>}

\* "[G]lyric": a chord-lyrics pair whose chords field is the string s.
Pair(s) == [kind |-> "pair", chords |-> s]
\* "{title: T}": an item without a chords field.
TagTok == [kind |-> "tag", chords |-> <<>>]
\* a line break
NewlineTok == [kind |-> "newline", chords |-> <<>>]
\* text the parser rejects (it throws)
BadTok == [kind |-> "bad", chords |-> <<>>]
\* an item the parser accepts and on which the formatter throws
NoFormatTok == [kind |-> "noformat", chords |-> <<>>]

Tokens ==
    {Pair(s) : s \in ChordSamples} \cup {TagTok, NewlineTok, BadTok, NoFormatTok}

RECURSIVE SplitLines(_, _)
SplitLines(toks, cur) ==
    IF Len(toks) = 0 THEN <<cur>>
    ELSE IF Head(toks).kind = "newline"
         THEN <<cur>> \o SplitLines(Tail(toks), <<>>)
         ELSE SplitLines(Tail(toks), Append(cur, Head(toks)))

\* this.parser.parse(text): throws on a malformed text, otherwise a song
\* with its lines, each a sequence of items.
Parse(text) ==
    [threw |-> \E i \in 1..Len(text) : text[i].kind = "bad",
     lines |-> SplitLines(text, <<>>)]

\* formatter.format(song) with the formatter the mode selects: a display
\* string, kept as the formatter that made it and the song it shows.
FormatThrows(song) ==
    \E i \in 1..Len(song.lines) :
        \E j \in 1..Len(song.lines[i]) : song.lines[i][j].kind = "noformat"

\* A string the component itself writes: '' or a placeholder.
Literal(s) == [str |-> s, by |-> "", lines |-> <<>>]
EmptySheet == Literal("")
FormattedBy(formatter, song) ==
    [str |-> "formatted", by |-> formatter, lines |-> song.lines]

(***************************************************************************)
(* Events.                                                                 *)
(***************************************************************************)
NoDetail == [chords |-> <<>>, instrument |-> "", mode |-> ""]

ChordsChangedEvent(chordArray) ==
    [type |-> "chords-changed", detail |-> [NoDetail EXCEPT !.chords = chordArray]]

ModeChangedEvent(mode) ==
    [type |-> "mode-changed", detail |-> [NoDetail EXCEPT !.mode = mode]]

InstrumentChangedEvent(inst) ==
    [type |-> "instrument-changed", detail |-> [NoDetail EXCEPT !.instrument = inst]]

(***************************************************************************)
(* Chord extraction: the body of the extractedChords getter.               *)
(***************************************************************************)
\* chords.add(x) on a Set, which keeps insertion order and no duplicates.
SetAdd(set, x) == IF x \in Range(set) THEN set ELSE Append(set, x)

\* The callback adding item.chords as it stands, untrimmed.
AddItemNoTrim(chords, item) ==
    IF item.kind = "pair" /\ Len(item.chords) > 0
    THEN SetAdd(chords, item.chords)
    ELSE chords

\* The test and the body of the inner forEach callback, for one item: a
\* chords field that is a non-empty string, trimmed, is added when not ''.
AddItem(chords, item) ==
    IF item.kind = "pair" /\ Len(item.chords) > 0
    THEN LET chordString == Trim(item.chords)
         IN  IF Len(chordString) > 0 THEN SetAdd(chords, chordString) ELSE chords
    ELSE chords

RECURSIVE ForEachItem(_, _)
ForEachItem(items, chords) ==
    IF Len(items) = 0 THEN chords
    ELSE ForEachItem(Tail(items), AddItem(chords, Head(items)))

RECURSIVE ForEachLine(_, _)
ForEachLine(lines, chords) ==
    IF Len(lines) = 0 THEN chords
    ELSE ForEachLine(Tail(lines), ForEachItem(Head(lines), chords))

\* Insertion of x into an ascending sequence.
RECURSIVE InsertSorted(_, _)
InsertSorted(x, sorted) ==
    IF Len(sorted) = 0 THEN <<x>>
    ELSE IF StrLess(x, Head(sorted)) THEN <<x>> \o sorted
    ELSE <<Head(sorted)>> \o InsertSorted(x, Tail(sorted))

RECURSIVE SortFrom(_, _)
SortFrom(arr, sorted) ==
    IF Len(arr) = 0 THEN sorted
    ELSE SortFrom(Tail(arr), InsertSorted(Head(arr), sorted))

\* Array.from(chords) without the sort.
SortOmitted(arr) == arr

\* Array.from(chords).sort()
Sort(arr) == SortFrom(arr, <<>>)

\* The getter dispatching the Set's members as inserted, before the sort.
ExtractedChordsUnsortedDetail(text) ==
    LET song == Parse(text)
    IN  IF song.threw
        THEN [value |-> <<>>, fired |-> <<>>]
        ELSE LET chords == ForEachLine(song.lines, <<>>)
             IN  [value |-> Sort(chords), fired |-> <<ChordsChangedEvent(chords)>>]

\* The getter evaluated on a text: the array it returns and the events it
\* dispatches (none when the parser throws and the catch returns []).
ExtractedChords(text) ==
    LET song == Parse(text)
    IN  IF song.threw
        THEN [value |-> <<>>, fired |-> <<>>]
        ELSE LET chordArray == Sort(ForEachLine(song.lines, <<>>))
             IN  [value |-> chordArray, fired |-> <<ChordsChangedEvent(chordArray)>>]

(***************************************************************************)
(* The component's state.                                                  *)
(***************************************************************************)
VARIABLES
    content,              \* @property content: the song text
    instrument,           \* @property instrument
    showChords,           \* @property showChords (attribute show-chords)
    chordPosition,        \* @property chordPosition (attribute chord-position)
    format,               \* @property format
    _mode,                \* @state _mode
    _showChordsInternal,  \* @state _showChordsInternal
    _selectedInstrument,  \* @state _selectedInstrument
    isConnected,          \* the element is attached to a document
    updatingEnabled,      \* the element has been attached once: updates may run
    hasUpdated,           \* the first update has completed
    isUpdatePending,      \* an update is requested and has not run yet
    changedProperties,    \* Map of the properties changed since the last update
                          \* to their old values (<<v>>, or <<>> for undefined)
    view,                 \* what the last render() produced
    events,               \* the events the last operation dispatched, in order
    reasserted,           \* the property the host has just assigned the value it
                          \* already had, while no update was pending ("" after
                          \* any other operation)
    batch                 \* value-changing assignments since the last update

vars ==
    <<content, instrument, showChords, chordPosition, format, _mode,
      _showChordsInternal, _selectedInstrument, isConnected, updatingEnabled,
      hasUpdated, isUpdatePending, changedProperties, view, events, reasserted, batch>>

external == <<content, instrument, showChords, chordPosition, format>>
internal == <<_mode, _showChordsInternal, _selectedInstrument>>

availableInstruments ==
    <<"Standard Ukulele", "Baritone Ukulele", "5ths tuned Ukulele",
      "Standard Guitar", "Drop-D Guitar", "Standard Mandolin">>

Modes == {"html", "text"}
Positions == {"top", "right", "bottom"}

\* The values the host supplies for instrument: any string is accepted.
HostInstruments == {"Standard Ukulele", "Banjo"}

\* The options the user picks in the instrument select.
UserPicks == {availableInstruments[i] : i \in {3, 4}}

\* The texts the host supplies: '', a text with a title line and the chords
\* G, C, G ("{title: T}\n[G]a [C ]b [G]c"), a text the parser rejects and a
\* text with another chord list, which the formatter rejects.
HostContents ==
    { <<>>,
      <<TagTok, NewlineTok, Pair(<<"G">>), Pair(<<"C", " ">>), Pair(<<"G">>)>>,
      <<Pair(<<"G">>), BadTok>>,
      <<Pair(<<"C", " ">>), NoFormatTok>> }

(***************************************************************************)
(* Reactive properties (Lit): an assignment that changes the value records *)
(* the old value in changedProperties, once, and requests an update.       *)
(***************************************************************************)
Has(cp, name) == name \in DOMAIN cp

NoChanges == [n \in {} |-> <<>>]

\* requestUpdate(name, oldValue) for an assignment of new over old: nothing
\* when the value is the same (hasChanged).
Changed(cp, name, old, new) ==
    IF new = old THEN cp
    ELSE IF Has(cp, name) THEN cp ELSE cp @@ (name :> <<old>>)

(***************************************************************************)
(* The getters and render().                                               *)
(***************************************************************************)
\* get formattedSheet, with the catch returning the text-mode placeholder
\* whatever the mode.
formattedSheetOnePlaceholder ==
    IF Len(content) = 0 THEN EmptySheet
    ELSE LET song == Parse(content)
             formatter == IF _mode = "html" THEN "HtmlDivFormatter" ELSE "TextFormatter"
         IN  IF song.threw \/ FormatThrows(song)
             THEN Literal("Invalid ChordPro format")
             ELSE FormattedBy(formatter, song)

\* get formattedSheet without the test for an empty content.
formattedSheetNoEmptyTest ==
    LET song == Parse(content)
        formatter == IF _mode = "html" THEN "HtmlDivFormatter" ELSE "TextFormatter"
    IN  IF song.threw \/ FormatThrows(song)
        THEN IF _mode = "html"
             THEN Literal("<div>Invalid ChordPro format</div>")
             ELSE Literal("Invalid ChordPro format")
        ELSE FormattedBy(formatter, song)

\* get formattedSheet choosing the html formatter whatever the mode.
formattedSheetHtmlFormatter ==
    IF Len(content) = 0 THEN EmptySheet
    ELSE LET song == Parse(content)
             formatter == "HtmlDivFormatter"
         IN  IF song.threw \/ FormatThrows(song)
             THEN IF _mode = "html"
                  THEN Literal("<div>Invalid ChordPro format</div>")
                  ELSE Literal("Invalid ChordPro format")
             ELSE FormattedBy(formatter, song)

\* get formattedSheet
formattedSheet ==
    IF Len(content) = 0 THEN EmptySheet
    ELSE LET song == Parse(content)
             formatter == IF _mode = "html" THEN "HtmlDivFormatter" ELSE "TextFormatter"
         IN  IF song.threw \/ FormatThrows(song)
             THEN IF _mode = "html"
                  THEN Literal("<div>Invalid ChordPro format</div>")
                  ELSE Literal("Invalid ChordPro format")
             ELSE FormattedBy(formatter, song)

\* get extractedChords
extractedChords == ExtractedChords(content)

\* html``: nothing rendered.
NoPanel == [present |-> FALSE, position |-> "", chords |-> <<>>, instrument |-> ""]

\* The chord-charts-section with its <chord-list>.
Panel(position, chords, inst) ==
    [present |-> TRUE, position |-> position, chords |-> chords, instrument |-> inst]

Rendered(tpl, fired) == [tpl |-> tpl, fired |-> fired]

\* renderChordList() without the test of the visibility.
renderChordListAlways ==
    LET first == extractedChords
    IN  IF Len(first.value) = 0
        THEN Rendered(NoPanel, first.fired)
        ELSE LET second == extractedChords
             IN  Rendered(Panel(chordPosition, second.value, _selectedInstrument),
                          first.fired \o second.fired)

\* renderChordList() passing the instrument property to the chord list.
renderChordListHostInstrument ==
    IF ~_showChordsInternal
    THEN Rendered(NoPanel, <<>>)
    ELSE LET first == extractedChords
         IN  IF Len(first.value) = 0
             THEN Rendered(NoPanel, first.fired)
             ELSE LET second == extractedChords
                  IN  Rendered(Panel(chordPosition, second.value, instrument),
                               first.fired \o second.fired)

\* renderChordList() keeping the list of its first evaluation of the getter.
renderChordListOneEvaluation ==
    IF ~_showChordsInternal
    THEN Rendered(NoPanel, <<>>)
    ELSE LET first == extractedChords
         IN  IF Len(first.value) = 0
             THEN Rendered(NoPanel, first.fired)
             ELSE Rendered(Panel(chordPosition, first.value, _selectedInstrument),
                           first.fired)

\* renderChordList()
renderChordList ==
    IF ~_showChordsInternal
    THEN Rendered(NoPanel, <<>>)
    ELSE LET first == extractedChords
         IN  IF Len(first.value) = 0
             THEN Rendered(NoPanel, first.fired)
             ELSE LET second == extractedChords
                  IN  Rendered(Panel(chordPosition, second.value, _selectedInstrument),
                               first.fired \o second.fired)

\* The content of the chord-sheet-viewer.
Body ==
    LET sheet == formattedSheet
    IN  IF sheet.str # ""
        THEN IF _mode = "html"
             THEN [tag |-> "div.innerHTML", sheet |-> sheet]
             ELSE [tag |-> "pre", sheet |-> sheet]
        ELSE [tag |-> "div", sheet |-> Literal("No content")]

NotRendered ==
    [position |-> "", mode |-> "", select |-> [present |-> FALSE, value |-> ""],
     toggle |-> "", top |-> NoPanel, hasRightChords |-> FALSE,
     body |-> [tag |-> "", sheet |-> EmptySheet], right |-> NoPanel,
     bottom |-> NoPanel]

\* render(): the template and the events dispatched while it is built, in
\* the order the expressions are evaluated.
render ==
    LET rightTest == IF chordPosition = "right" /\ _showChordsInternal
                     THEN extractedChords
                     ELSE [value |-> <<>>, fired |-> <<>>]
        hasRightChords == chordPosition = "right" /\ _showChordsInternal
                          /\ Len(rightTest.value) > 0
        top == IF chordPosition = "top" THEN renderChordList ELSE Rendered(NoPanel, <<>>)
        rightTest2 == IF chordPosition = "right" /\ _showChordsInternal
                      THEN extractedChords
                      ELSE [value |-> <<>>, fired |-> <<>>]
        right == IF chordPosition = "right" /\ _showChordsInternal
                    /\ Len(rightTest2.value) > 0
                 THEN renderChordList
                 ELSE Rendered(NoPanel, <<>>)
        bottom == IF chordPosition = "bottom" THEN renderChordList
                  ELSE Rendered(NoPanel, <<>>)
    IN  [tpl |->
            [position |-> chordPosition,
             mode |-> _mode,
             select |-> [present |-> _showChordsInternal,
                         value |-> IF _showChordsInternal THEN _selectedInstrument ELSE ""],
             toggle |-> IF _showChordsInternal THEN "Hide Chords" ELSE "Show Chords",
             top |-> top.tpl,
             hasRightChords |-> hasRightChords,
             body |-> Body,
             right |-> right.tpl,
             bottom |-> bottom.tpl],
         fired |-> rightTest.fired \o top.fired \o rightTest2.fired \o right.fired
                   \o bottom.fired]

(***************************************************************************)
(* Construction.                                                           *)
(***************************************************************************)
\* The class-field initialisers run through the property setters: every
\* reactive property is in changedProperties with the old value undefined,
\* and the first update is requested; it runs once the element is attached.
InitialChanges ==
    [n \in {"content", "instrument", "showChords", "chordPosition", "format",
            "_mode", "_showChordsInternal", "_selectedInstrument"} |-> <<>>]

Init ==
    /\ content = <<>>
    /\ instrument = "Standard Ukulele"
    /\ showChords = FALSE
    /\ chordPosition = "top"
    /\ format = "html"
    /\ _mode = "html"
    /\ _showChordsInternal = FALSE
    /\ _selectedInstrument = "Standard Ukulele"
    /\ isConnected = FALSE
    /\ updatingEnabled = FALSE
    /\ hasUpdated = FALSE
    /\ isUpdatePending = TRUE
    /\ changedProperties = InitialChanges
    /\ view = NotRendered
    /\ events = <<>>
    /\ reasserted = ""
    /\ batch = 0

(***************************************************************************)
(* The host assigns a property (or sets its attribute).                    *)
(***************************************************************************)
\* What an assignment of new over old does to the update bookkeeping.
Assign(name, old, new) ==
    /\ new # old => batch < MaxBatch
    /\ changedProperties' = Changed(changedProperties, name, old, new)
    /\ isUpdatePending' = (isUpdatePending \/ new # old)
    /\ batch' = IF new # old THEN batch + 1 ELSE batch
    /\ reasserted' = IF new = old /\ ~isUpdatePending THEN name ELSE ""
    /\ events' = <<>>
    /\ UNCHANGED <<internal, isConnected, updatingEnabled, hasUpdated, view>>

SetContent(v) ==
    /\ Assign("content", content, v)
    /\ content' = v
    /\ UNCHANGED <<instrument, showChords, chordPosition, format>>

SetInstrument(v) ==
    /\ Assign("instrument", instrument, v)
    /\ instrument' = v
    /\ UNCHANGED <<content, showChords, chordPosition, format>>

SetShowChords(v) ==
    /\ Assign("showChords", showChords, v)
    /\ showChords' = v
    /\ UNCHANGED <<content, instrument, chordPosition, format>>

SetChordPosition(v) ==
    /\ Assign("chordPosition", chordPosition, v)
    /\ chordPosition' = v
    /\ UNCHANGED <<content, instrument, showChords, format>>

SetFormat(v) ==
    /\ Assign("format", format, v)
    /\ format' = v
    /\ UNCHANGED <<content, instrument, showChords, chordPosition>>

(***************************************************************************)
(* Attachment.                                                             *)
(***************************************************************************)
\* connectedCallback() calling only super.connectedCallback().
connectedCallbackNoSync ==
    /\ ~isConnected
    /\ isConnected' = TRUE
    /\ updatingEnabled' = TRUE
    /\ events' = <<>>
    /\ reasserted' = ""
    /\ UNCHANGED <<external, internal, changedProperties, isUpdatePending,
                   hasUpdated, view, batch>>

connectedCallback ==
    /\ ~isConnected
    /\ isConnected' = TRUE
    /\ updatingEnabled' = TRUE
    /\ _mode' = format
    /\ _showChordsInternal' = showChords
    /\ _selectedInstrument' = instrument
    /\ changedProperties' =
          Changed(Changed(Changed(changedProperties,
                                  "_mode", _mode, format),
                          "_showChordsInternal", _showChordsInternal, showChords),
                  "_selectedInstrument", _selectedInstrument, instrument)
    /\ isUpdatePending' = (isUpdatePending \/ <<_mode, _showChordsInternal,
                             _selectedInstrument>> # <<format, showChords, instrument>>)
    /\ events' = <<>>
    /\ reasserted' = ""
    /\ UNCHANGED <<external, hasUpdated, view, batch>>

disconnectedCallback ==
    /\ isConnected
    /\ isConnected' = FALSE
    /\ events' = <<>>
    /\ reasserted' = ""
    /\ UNCHANGED <<external, internal, updatingEnabled, hasUpdated, isUpdatePending,
                   changedProperties, view, batch>>

(***************************************************************************)
(* The update cycle: render(), then updated(changedProperties).            *)
(***************************************************************************)
\* updated() without the resynchronisation of the instrument.
updatedNoInstrument(changed) ==
    [mode |-> IF Has(changed, "format") THEN format ELSE _mode,
     show |-> IF Has(changed, "showChords") THEN showChords ELSE _showChordsInternal,
     inst |-> _selectedInstrument]

\* updated() resynchronising on every update, whatever changed.
updatedUnconditional(changed) ==
    [mode |-> format, show |-> showChords, inst |-> instrument]

\* updated() assigning the internal mode the value opposite to format.
updatedFlipsMode(changed) ==
    [mode |-> IF Has(changed, "format") THEN format
              ELSE IF _mode = "html" THEN "text" ELSE "html",
     show |-> IF Has(changed, "showChords") THEN showChords ELSE _showChordsInternal,
     inst |-> IF Has(changed, "instrument") THEN instrument ELSE _selectedInstrument]

\* updated(changedProperties): the internal values it leaves.
updated(changed) ==
    [mode |-> IF Has(changed, "format") THEN format ELSE _mode,
     show |-> IF Has(changed, "showChords") THEN showChords ELSE _showChordsInternal,
     inst |-> IF Has(changed, "instrument") THEN instrument ELSE _selectedInstrument]

performUpdate ==
    /\ isUpdatePending
    /\ updatingEnabled
    /\ LET r == render
           u == updated(changedProperties)
           again == Changed(Changed(Changed(NoChanges,
                                            "_mode", _mode, u.mode),
                                    "_showChordsInternal", _showChordsInternal, u.show),
                            "_selectedInstrument", _selectedInstrument, u.inst)
       IN  /\ view' = r.tpl
           /\ events' = r.fired
           /\ _mode' = u.mode
           /\ _showChordsInternal' = u.show
           /\ _selectedInstrument' = u.inst
           /\ changedProperties' = again
           /\ isUpdatePending' = (again # NoChanges)
    /\ hasUpdated' = TRUE
    /\ batch' = 0
    /\ reasserted' = ""
    /\ UNCHANGED <<external, isConnected, updatingEnabled>>

(***************************************************************************)
(* User interactions.  A control can be used once it is rendered in an     *)
(* attached element; the update a handler requests runs before the next    *)
(* user event is delivered.                                                *)
(***************************************************************************)
Interactive == isConnected /\ hasUpdated /\ ~isUpdatePending

\* What a handler's assignments of the three internal values do.
Handle(mode, show, inst) ==
    /\ _mode' = mode
    /\ _showChordsInternal' = show
    /\ _selectedInstrument' = inst
    /\ changedProperties' =
          Changed(Changed(Changed(changedProperties,
                                  "_mode", _mode, mode),
                          "_showChordsInternal", _showChordsInternal, show),
                  "_selectedInstrument", _selectedInstrument, inst)
    /\ isUpdatePending' = (isUpdatePending \/ <<_mode, _showChordsInternal,
                             _selectedInstrument>> # <<mode, show, inst>>)
    /\ UNCHANGED <<external, isConnected, updatingEnabled, hasUpdated, view, batch>>

\* handleModeChange without the dispatch.
handleModeChangeSilent(mode) ==
    /\ Interactive
    /\ Handle(mode, _showChordsInternal, _selectedInstrument)
    /\ events' = <<>>
    /\ reasserted' = ""

handleModeChange(mode) ==
    /\ Interactive
    /\ Handle(mode, _showChordsInternal, _selectedInstrument)
    /\ events' = <<ModeChangedEvent(mode)>>
    /\ reasserted' = ""

\* handleInstrumentChange dispatching before it stores the selection.
handleInstrumentChangeStale(value) ==
    /\ Interactive
    /\ view.select.present
    /\ value # view.select.value
    /\ Handle(_mode, _showChordsInternal, value)
    /\ events' = <<InstrumentChangedEvent(_selectedInstrument)>>
    /\ reasserted' = ""

\* The select is rendered only while the chords are shown; its options are
\* the available instruments, and a change event tells a selection other
\* than the one displayed.
handleInstrumentChange(value) ==
    /\ Interactive
    /\ view.select.present
    /\ value # view.select.value
    /\ Handle(_mode, _showChordsInternal, value)
    /\ events' = <<InstrumentChangedEvent(value)>>
    /\ reasserted' = ""

toggleChords ==
    /\ Interactive
    /\ Handle(_mode, ~_showChordsInternal, _selectedInstrument)
    /\ events' = <<>>
    /\ reasserted' = ""

(***************************************************************************)
(* The component in a host page.                                           *)
(***************************************************************************)
Next ==
    \/ \E v \in HostContents : SetContent(v)
    \/ \E v \in HostInstruments : SetInstrument(v)
    \/ \E v \in BOOLEAN : SetShowChords(v)
    \/ \E v \in Positions : SetChordPosition(v)
    \/ \E v \in Modes : SetFormat(v)
    \/ connectedCallback
    \/ disconnectedCallback
    \/ performUpdate
    \/ \E m \in Modes : handleModeChange(m)
    \/ \E v \in UserPicks : handleInstrumentChange(v)
    \/ toggleChords

Spec == Init /\ [][Next]_vars

(***************************************************************************)
(* A page that creates the element with show-chords and some text, attaches *)
(* it and lets the user toggle the chord panel: the extraction on every     *)
(* text of up to MaxTokens tokens.                                          *)
(***************************************************************************)
RECURSIVE TextsOfLength(_)
TextsOfLength(n) ==
    IF n = 0 THEN {<<>>}
    ELSE {Append(t, tok) : t \in TextsOfLength(n - 1), tok \in Tokens}

Texts == UNION {TextsOfLength(n) : n \in 0..MaxTokens}

InitExtract ==
    /\ content \in Texts
    /\ instrument = "Standard Ukulele"
    /\ showChords = TRUE
    /\ chordPosition = "top"
    /\ format = "html"
    /\ _mode = "html"
    /\ _showChordsInternal = FALSE
    /\ _selectedInstrument = "Standard Ukulele"
    /\ isConnected = FALSE
    /\ updatingEnabled = FALSE
    /\ hasUpdated = FALSE
    /\ isUpdatePending = TRUE
    /\ changedProperties = InitialChanges
    /\ view = NotRendered
    /\ events = <<>>
    /\ reasserted = ""
    /\ batch = 0

NextExtract ==
    \/ connectedCallback
    \/ performUpdate
    \/ toggleChords

SpecExtract == InitExtract /\ [][NextExtract]_vars

(***************************************************************************)
(* Properties.                                                             *)
(***************************************************************************)
\* The update cycle has completed: the element has rendered and no update
\* is pending.
Settled == hasUpdated /\ ~isUpdatePending

ChordsOf(text) == ExtractedChords(text).value

AnyPanel(v) == v.top.present \/ v.right.present \/ v.bottom.present

\* a precedes b in lexicographic order of the code units.
LexLess(a, b) ==
    \E k \in 1..(Len(b)) :
        /\ k <= Len(a) + 1
        /\ \A i \in 1..(k - 1) : a[i] = b[i]
        /\ k = Len(a) + 1 \/ CodeUnit(a[k]) < CodeUnit(b[k])

\* s without its leading and trailing blanks.
Trimmed(s) ==
    LET marks == {i \in 1..Len(s) : s[i] # " "}
    IN  IF marks = {} THEN <<>>
        ELSE SubSeq(s, CHOOSE i \in marks : \A j \in marks : i <= j,
                       CHOOSE i \in marks : \A j \in marks : j <= i)

\* The trimmed, non-empty string chord annotations of the items of a song.
AnnotationsOf(song) ==
    UNION {{Trimmed(line[j].chords) : j \in {k \in 1..Len(line) : line[k].kind = "pair"}} :
              line \in Range(song.lines)} \ {<<>>}

\* list holds every annotation of the song once, in ascending order.
IsChordListOf(list, song) ==
    /\ Range(list) = AnnotationsOf(song)
    /\ \A i \in 1..Len(list) : \A j \in 1..Len(list) : i < j => LexLess(list[i], list[j])

\* C1: when the parser succeeds on the content, the chord list extractedChords
\* returns (shown in the chord panel) and the list every chords-changed event
\* carries hold exactly the trimmed, non-empty chord annotations of the
\* song's items, each once, case preserved, in ascending lexicographic order.
C1_ExtractedChordsSortedDistinct ==
    ~Parse(content).threw =>
        /\ \A i \in 1..Len(events) :
              events[i].type = "chords-changed" =>
                  IsChordListOf(events[i].detail.chords, Parse(content))
        /\ view.top.present => IsChordListOf(view.top.chords, Parse(content))
        /\ (Settled /\ view.select.present) =>
              /\ Len(events) > 0
              /\ view.top.present <=> AnnotationsOf(Parse(content)) # {}

\* C1 witness: items carrying G, 'C ' and G have yielded exactly [C, G].
C1_Witness ==
    /\ content = <<Pair(<<"G">>), Pair(<<"C", " ">>), Pair(<<"G">>)>>
    /\ view.top.present
    /\ view.top.chords = << <<"C">>, <<"G">> >>
    /\ events = <<ChordsChangedEvent(<< <<"C">>, <<"G">> >>),
                  ChordsChangedEvent(<< <<"C">>, <<"G">> >>)>>

\* C2: when the content changes to a text whose chord list differs from the
\* previous one, the update that follows dispatches a chords-changed event
\* carrying the new list, whatever the view state.
C2_ChordsChangedOnEveryChange ==
    [][(/\ performUpdate
        /\ Has(changedProperties, "content")
        /\ Len(changedProperties["content"]) = 1
        /\ ChordsOf(changedProperties["content"][1]) # ChordsOf(content))
       => ChordsChangedEvent(ChordsOf(content)) \in Range(events')]_vars

\* C3: after an external assignment to format, showChords or instrument, once
\* the update cycle it starts has completed (at once, when it starts none),
\* the internal value equals the external one.
C3_AssignmentResynchronises ==
    [][/\ (performUpdate /\ Has(changedProperties, "format")) \/ reasserted' = "format"
            => _mode' = format'
       /\ (performUpdate /\ Has(changedProperties, "showChords"))
             \/ reasserted' = "showChords"
            => _showChordsInternal' = showChords'
       /\ (performUpdate /\ Has(changedProperties, "instrument"))
             \/ reasserted' = "instrument"
            => _selectedInstrument' = instrument']_vars

\* C4 as claimed: each user interaction changes its internal value and emits
\* a notification.
C4_EveryInteractionNotifies ==
    [][((\E m \in Modes : handleModeChange(m)) => _mode' # _mode /\ events' # <<>>)
       /\ ((\E v \in UserPicks : handleInstrumentChange(v))
              => _selectedInstrument' # _selectedInstrument /\ events' # <<>>)
       /\ (toggleChords
              => _showChordsInternal' # _showChordsInternal /\ events' # <<>>)]_vars

\* C4: a click on a mode button sets the internal mode to that button's mode
\* (which may be the mode already active) and emits one mode-changed event
\* carrying it; a selection sets the internal instrument to another value and
\* emits one instrument-changed event carrying it; a click on the visibility
\* toggle inverts the internal visibility and emits no event.
C4_InteractionEffects ==
    [][/\ \A m \in Modes :
             handleModeChange(m) => _mode' = m /\ events' = <<ModeChangedEvent(m)>>
       /\ \A v \in UserPicks :
             handleInstrumentChange(v) =>
                 /\ _selectedInstrument' = v
                 /\ _selectedInstrument' # _selectedInstrument
                 /\ events' = <<InstrumentChangedEvent(v)>>
       /\ toggleChords =>
             /\ _showChordsInternal' = ~_showChordsInternal
             /\ events' = <<>>]_vars

\* C4 witness: the toggle has just inverted the visibility of a synchronised
\* element and nothing was dispatched.
C4_Witness ==
    /\ hasUpdated /\ isUpdatePending
    /\ DOMAIN changedProperties = {"_showChordsInternal"}
    /\ changedProperties["_showChordsInternal"] = <<showChords>>
    /\ _showChordsInternal # showChords
    /\ events = <<>>

\* The identifiers the claim lists.
ClaimedInstruments ==
    {"Standard Ukulele", "Baritone Ukulele", "5ths-tuned Ukulele",
     "Standard Guitar", "Drop-D Guitar", "Standard Mandolin"}

\* C5 as claimed: the selected instrument is always one of the six listed
\* identifiers.
C5_SelectedInstrumentListed == _selectedInstrument \in ClaimedInstruments

\* C5: whenever no update is pending, the selected instrument is one of the
\* six available instruments (the third spelled '5ths tuned Ukulele') or the
\* value of the instrument property, which is not validated.
C5_SelectedInstrumentAvailableOrSupplied ==
    ~isUpdatePending =>
        \/ _selectedInstrument \in Range(availableInstruments)
        \/ _selectedInstrument = instrument

\* C5 witness: the host supplied an unlisted instrument, the element showed
\* it, and the user then picked the third option.
C5_Witness ==
    /\ Settled
    /\ instrument = "Banjo"
    /\ _selectedInstrument = "5ths tuned Ukulele"
    /\ view.select.value = "5ths tuned Ukulele"

\* The chart panel is in slot p of view v.
InSlot(v, p) ==
    CASE p = "top" -> v.top
      [] p = "right" -> v.right
      [] p = "bottom" -> v.bottom

\* C6: every render (an update, which runs only while one is pending, leaves
\* the external properties and the attachment alone and consumes the recorded
\* changes) shows the chart panel exactly when the visibility is shown and
\* the chord list is non-empty, once, in the slot the chord-position names;
\* so a toggle of the visibility makes it appear there and the next one
\* removes it.
C6_PanelLayout ==
    [][(/\ isUpdatePending
        /\ UNCHANGED <<external, isConnected>>
        /\ changedProperties' # changedProperties
        /\ performUpdate) =>
          LET chords == ChordsOf(content)
              shown == _showChordsInternal /\ Len(chords) > 0
          IN  /\ \A p \in Positions :
                    InSlot(view', p).present <=> (shown /\ p = chordPosition)
              /\ \A p \in Positions :
                    InSlot(view', p).present =>
                        /\ InSlot(view', p).position = p
                        /\ InSlot(view', p).chords = chords
              /\ view'.hasRightChords <=> (shown /\ chordPosition = "right")]_vars

\* C6 witness: the user toggled a hidden panel on and it is rendered beside
\* the text.
C6_Witness ==
    /\ Settled
    /\ ~showChords /\ _showChordsInternal
    /\ chordPosition = "right"
    /\ view.right.present /\ ~view.top.present /\ ~view.bottom.present

InvalidPlaceholder(mode) ==
    IF mode = "html" THEN "<div>Invalid ChordPro format</div>"
    ELSE "Invalid ChordPro format"

\* C7 as claimed: for a content on which the parser or the formatter throws,
\* the body is the invalid-format placeholder of the active mode and the
\* extraction yields the empty list.
C7_FailureShowsPlaceholderAndNoChords ==
    (/\ Settled
     /\ Len(content) > 0
     /\ Parse(content).threw \/ FormatThrows(Parse(content)))
    => /\ view.body.sheet = Literal(InvalidPlaceholder(_mode))
       /\ ChordsOf(content) = <<>>

\* C7: for a content on which the parser or the formatter throws, the body is
\* the invalid-format placeholder of the active mode (in a div in html mode,
\* in a pre in text mode); the extraction yields the empty list, and no panel
\* is rendered, when it is the parser that throws; when only the formatter
\* throws, the extraction still yields the chords of the text.
C7_FailureShowsPlaceholder ==
    (/\ Settled
     /\ Len(content) > 0
     /\ Parse(content).threw \/ FormatThrows(Parse(content)))
    => /\ view.body.sheet = Literal(InvalidPlaceholder(_mode))
       /\ view.body.tag = IF _mode = "html" THEN "div.innerHTML" ELSE "pre"
       /\ Parse(content).threw =>
             /\ ChordsOf(content) = <<>>
             /\ ~AnyPanel(view)
             /\ \A i \in 1..Len(events) : events[i].type # "chords-changed"
       /\ ~Parse(content).threw =>
             IsChordListOf(ChordsOf(content), Parse(content))

\* C7 witness: the parser throws on the content and the user has switched to
\* text mode: the body is the placeholder of the text mode.
C7_Witness ==
    /\ Settled
    /\ Parse(content).threw
    /\ format = "html" /\ _mode = "text"
    /\ view.body = [tag |-> "pre", sheet |-> Literal("Invalid ChordPro format")]

\* C8: for the empty content, whatever the mode, the visibility and the
\* position, the extraction yields the empty list, the body is the 'No
\* content' placeholder and no chart panel is rendered.
C8_EmptyContent ==
    (Settled /\ content = <<>>)
    => /\ ChordsOf(content) = <<>>
       /\ view.body = [tag |-> "div", sheet |-> Literal("No content")]
       /\ ~AnyPanel(view)
       /\ ~view.hasRightChords

\* C8 witness: the empty content rendered in text mode with the chords shown
\* and the position right.
C8_Witness ==
    /\ Settled
    /\ content = <<>>
    /\ _mode = "text" /\ _showChordsInternal /\ chordPosition = "right"
    /\ view.mode = "text" /\ view.select.present
    /\ view.body.sheet.str = "No content"

UserInteraction ==
    \/ \E m \in Modes : handleModeChange(m)
    \/ \E v \in UserPicks : handleInstrumentChange(v)
    \/ toggleChords

\* C9: the user-interaction handlers leave the five external properties
\* alone, and an internal value changes only by the user's interaction with
\* its own control or by a resynchronisation: it is kept by (a step that
\* changes it is none of) the interactions with the other controls, the
\* assignments of other properties and the updates in which its own property
\* has not changed.
C9_HandlersKeepExternalAndInternalPersists ==
    [][/\ UNCHANGED external \/ ~UserInteraction
       /\ _mode' = _mode
           \/ ~(\/ (\E v \in UserPicks : handleInstrumentChange(v)) \/ toggleChords
                \/ (\E v \in HostContents : SetContent(v))
                \/ (\E v \in HostInstruments : SetInstrument(v))
                \/ (\E v \in BOOLEAN : SetShowChords(v))
                \/ (\E v \in Positions : SetChordPosition(v))
                \/ (performUpdate /\ ~Has(changedProperties, "format")))
       /\ _showChordsInternal' = _showChordsInternal
           \/ ~(\/ (\E m \in Modes : handleModeChange(m))
                \/ (\E v \in UserPicks : handleInstrumentChange(v))
                \/ (\E v \in HostContents : SetContent(v))
                \/ (\E v \in HostInstruments : SetInstrument(v))
                \/ (\E v \in Positions : SetChordPosition(v))
                \/ (\E v \in Modes : SetFormat(v))
                \/ (performUpdate /\ ~Has(changedProperties, "showChords")))
       /\ _selectedInstrument' = _selectedInstrument
           \/ ~(\/ (\E m \in Modes : handleModeChange(m)) \/ toggleChords
                \/ (\E v \in HostContents : SetContent(v))
                \/ (\E v \in BOOLEAN : SetShowChords(v))
                \/ (\E v \in Positions : SetChordPosition(v))
                \/ (\E v \in Modes : SetFormat(v))
                \/ (performUpdate /\ ~Has(changedProperties, "instrument")))]_vars

\* C9 witness: the user has switched the mode away from format, the element
\* has rendered it, and the host has then changed the content: the mode the
\* user chose is kept.
C9_Witness ==
    /\ hasUpdated /\ isUpdatePending
    /\ DOMAIN changedProperties = {"content"}
    /\ _mode # format
    /\ view.mode = _mode

\* C10: a selection in the instrument select, which is there while the chord
\* panel is shown, sets the internal instrument to the chosen identifier,
\* dispatches exactly one event, an instrument-changed carrying that
\* identifier, and leaves the content (hence the chord list), the mode and
\* the visibility unchanged.
C10_InstrumentSelection ==
    [][\A v \in UserPicks :
          handleInstrumentChange(v) =>
              /\ _showChordsInternal
              /\ _selectedInstrument' = v
              /\ events' = <<InstrumentChangedEvent(v)>>
              /\ ChordsOf(content') = ChordsOf(content)
              /\ _mode' = _mode
              /\ _showChordsInternal' = _showChordsInternal]_vars

\* C10 witness: with the panel shown, the user has just selected the
\* Standard Guitar and the event carrying it is the only one dispatched.
C10_Witness ==
    /\ _showChordsInternal /\ view.top.present
    /\ _selectedInstrument = "Standard Guitar"
    /\ view.select.value # "Standard Guitar"
    /\ events = <<InstrumentChangedEvent("Standard Guitar")>>

Formatter(mode) == IF mode = "html" THEN "HtmlDivFormatter" ELSE "TextFormatter"

\* The event of the given type is dispatched n times in evs.
Count(evs, type) == Cardinality({i \in 1..Len(evs) : evs[i].type = type})

\* C11: a click on the button of the other mode (html to text, or text to
\* html) dispatches exactly one event, a mode-changed carrying the new mode,
\* and leaves the content (hence the chord list), the visibility and the
\* selected instrument unchanged; the render that follows dispatches no
\* further mode-changed event, shows the new mode, has its body produced by
\* the formatter of the new mode where the former body was produced by the
\* formatter of the old one, keeps the chart panel with its chord list and
\* its instrument where it was, and leaves the internal state unchanged.
C11_ModeSwitch ==
    [][/\ \A m \in Modes :
             (handleModeChange(m) /\ m # _mode) =>
                 /\ events' = <<ModeChangedEvent(m)>>
                 /\ _mode' = m
                 /\ ChordsOf(content') = ChordsOf(content)
                 /\ _showChordsInternal' = _showChordsInternal
                 /\ _selectedInstrument' = _selectedInstrument
                 /\ isUpdatePending'
       /\ (/\ isUpdatePending
           /\ events = <<ModeChangedEvent(_mode)>>
           /\ DOMAIN changedProperties = {"_mode"}
           /\ performUpdate) =>
                 /\ Count(events', "mode-changed") = 0
                 /\ view.mode # _mode /\ view'.mode = _mode
                 /\ view.body.sheet.by = Formatter(view.mode) =>
                       /\ view'.body.sheet.by = Formatter(_mode)
                       /\ view'.body.sheet.lines = view.body.sheet.lines
                       /\ view'.body.tag = IF _mode = "html" THEN "div.innerHTML" ELSE "pre"
                 /\ view.body.sheet.by = "" =>
                       view'.body.sheet.by = ""
                 /\ \A p \in Positions : InSlot(view', p) = InSlot(view, p)
                 /\ view'.select = view.select
                 /\ UNCHANGED internal
                 /\ ~isUpdatePending']_vars

\* C11 witness: the user has switched a formatted song with its chord panel
\* shown to text mode and the text formatter has produced the body.
C11_Witness ==
    /\ Settled
    /\ format = "html" /\ _mode = "text"
    /\ view.mode = "text"
    /\ view.body.tag = "pre" /\ view.body.sheet.by = "TextFormatter"
    /\ view.top.present

\* C12: a mode-changed event is dispatched exactly when the display mode
\* changes: an operation that changes _mode dispatches one mode-changed event
\* carrying the new mode, and an operation that leaves _mode at its value
\* dispatches none.
C12_ModeChangedExactlyOnChange ==
    [][/\ _mode' # _mode =>
             /\ Count(events', "mode-changed") = 1
             /\ ModeChangedEvent(_mode') \in Range(events')
       /\ _mode' = _mode => Count(events', "mode-changed") = 0]_vars

\* C13: immediately after every attachment (connectedCallback, a
\* re-attachment after user interactions included) the internal mode,
\* visibility and instrument equal the external format, showChords and
\* instrument, which the attachment leaves alone; when nothing has been
\* configured before the first attachment these are html, hidden and
\* 'Standard Ukulele', with the chord-position top and the content empty.
C13_AttachmentSynchronises ==
    [][connectedCallback =>
          /\ _mode' = format'
          /\ _showChordsInternal' = showChords'
          /\ _selectedInstrument' = instrument'
          /\ UNCHANGED external
          /\ (~updatingEnabled /\ batch = 0) =>
                /\ _mode' = "html"
                /\ _showChordsInternal' = FALSE
                /\ _selectedInstrument' = "Standard Ukulele"
                /\ chordPosition' = "top"
                /\ content' = <<>>]_vars

\* C13 witness: the user had switched to text mode; the element has been
\* attached again and, while the view still shows the text mode and the
\* instrument select, the internal mode and visibility are at the configured
\* html and hidden, the update that shows them pending.
C13_Witness ==
    /\ isConnected /\ hasUpdated /\ isUpdatePending
    /\ DOMAIN changedProperties = {"_mode", "_showChordsInternal"}
    /\ format = "html" /\ _mode = "html"
    /\ changedProperties["_mode"] = <<"text">> /\ view.mode = "text"
    /\ showChords = FALSE /\ _showChordsInternal = FALSE
    /\ changedProperties["_showChordsInternal"] = <<TRUE>>
    /\ view.select.present

\* C14: when the host changes the chord-position (among top, right and
\* bottom) while the visibility is shown and the chord list is non-empty, the
\* assignment leaves the content and the internal state alone, and the render
\* that follows (old being the position last rendered, new the one assigned
\* last) shows the chart panel in the slot of the new position and in no
\* other, with the chord list and the instrument it had in the slot of the
\* old position; the mode, the instrument select and the body it shows are
\* the former ones, and the internal mode, visibility and instrument are
\* unchanged.
C14_PositionChangeMovesPanel ==
    [][/\ \A v \in Positions :
             (SetChordPosition(v) /\ v # chordPosition) =>
                 /\ chordPosition' = v
                 /\ ChordsOf(content') = ChordsOf(content)
                 /\ UNCHANGED internal
       /\ (/\ isUpdatePending
           /\ DOMAIN changedProperties = {"chordPosition"}
           /\ _showChordsInternal
           /\ Len(ChordsOf(content)) > 0
           /\ performUpdate) =>
             LET old == changedProperties["chordPosition"][1]
             IN  /\ InSlot(view, old).present
                 /\ InSlot(view', chordPosition) =
                        [InSlot(view, old) EXCEPT !.position = chordPosition]
                 /\ InSlot(view', chordPosition).chords = ChordsOf(content)
                 /\ InSlot(view', chordPosition).instrument = _selectedInstrument
                 /\ \A p \in Positions \ {chordPosition} : ~InSlot(view', p).present
                 /\ view'.position = chordPosition
                 /\ view'.hasRightChords <=> chordPosition = "right"
                 /\ view'.mode = view.mode
                 /\ view'.body = view.body
                 /\ view'.select = view.select
                 /\ UNCHANGED internal
                 /\ ~isUpdatePending']_vars

\* C14 witness: the chart panel of an instrument the user picked is shown
\* above the text and the host has just changed the chord-position from top
\* to right.
C14_Witness ==
    /\ isConnected /\ hasUpdated /\ isUpdatePending
    /\ DOMAIN changedProperties = {"chordPosition"}
    /\ changedProperties["chordPosition"] = <<"top">>
    /\ chordPosition = "right"
    /\ _showChordsInternal
    /\ view.top.present
    /\ view.top.instrument = "Standard Guitar"
    /\ instrument # "Standard Guitar"

InternalNames == {"_mode", "_showChordsInternal", "_selectedInstrument"}

\* C17: the update cycle quiesces.  An update leaves another one pending only
\* when its updated() has changed an internal value, and then only internal
\* values are recorded as changed; an update in which only internal values
\* have changed (the one a user interaction requests, and the further pass
\* that the assignments of updated() request) changes no internal value and
\* leaves no update pending.  So a change of an external property is followed
\* by at most two render passes and a user interaction by one, and the view
\* then shows the internal state, which stays as it is.
C17_UpdateCycleQuiesces ==
    [][(/\ isUpdatePending
        /\ UNCHANGED <<external, isConnected>>
        /\ changedProperties' # changedProperties
        /\ performUpdate) =>
          /\ DOMAIN changedProperties' \subseteq InternalNames
          /\ isUpdatePending' <=> internal' # internal
          /\ isUpdatePending' <=> changedProperties' # NoChanges
          /\ DOMAIN changedProperties \subseteq InternalNames =>
                /\ ~isUpdatePending'
                /\ UNCHANGED internal
          /\ ~isUpdatePending' =>
                /\ view'.mode = _mode'
                /\ view'.select.present = _showChordsInternal'
                /\ view'.select.present => view'.select.value = _selectedInstrument'
                /\ view'.position = chordPosition']_vars

\* C17 witness: the host has changed format over the mode shown; the render
\* pass that followed (it has dispatched the chord list) showed the former
\* mode, its updated() has resynchronised the internal mode, and the further
\* pass this requests is pending, only the internal mode recorded as changed.
C17_Witness ==
    /\ isConnected /\ hasUpdated /\ isUpdatePending
    /\ DOMAIN changedProperties = {"_mode"}
    /\ _mode = format
    /\ changedProperties["_mode"] # <<format>>
    /\ view.mode # _mode
    /\ events # <<>>
    /\ events[1].type = "chords-changed"

====
